---- MODULE Spec2Model ----
(***************************************************************************)
(* parquet-probe: the session state of src/main.rs (struct App and its     *)
(* ParqFile documents), the startup in main / App::new and the draw /      *)
(* handle_events loop of App::run.                                         *)
(*                                                                         *)
(* A page is represented by the length of its buffer (page.buffer().len()),*)
(* the only field of a page that the session state depends on.             *)
(* Indices (row group, column, focused file) are 0-based as in the source; *)
(* TLA+ sequences are 1-based, so files[i + 1] is the source's files[i].   *)
(***************************************************************************)
EXTENDS Integers, Sequences, FiniteSets, TLC

\* ------------------------------------------------------------------ bounds

\* Longest list of positional paths on the command line.
MaxPaths == 3

\* Longest list of paths of the sessions of one file opened several times.
MaxWidePaths == 6

\* Largest --row-group / --column value on the command line.
MaxInitIndex == 2

\* Width of usize in the model (the target's is 64; scaled to TLC's integers).
UsizeBits == 10

\* Width of u32 in the model (32 in the source; scaled with UsizeBits).
U32Bits == 9

UsizeModulus == 2 ^ UsizeBits

U32Modulus == 2 ^ U32Bits

\* ------------------------------------------------------------ environment

\* A column chunk whose page stream decodes to pages of these byte lengths.
Chunk(lens) == [readable |-> TRUE, pages |-> lens]

\* A column chunk whose page stream cannot be decoded.
CorruptChunk == [readable |-> FALSE, pages |-> <<>>]

\* The files on disk, by path. row_groups[rg + 1][col + 1] is the column chunk
\* of row group rg and column col. Page buffers are non-empty, and the pages
\* of a column chunk total less than U32Modulus bytes.
FileSystem ==
    [ a |-> [readable |-> TRUE,
             row_groups |-> << << Chunk(<<100, 50, 50>>), Chunk(<<200>>) >>,
                               << Chunk(<<50, 50>>),      Chunk(<<25>>)  >> >>],
      b |-> [readable |-> TRUE,
             row_groups |-> << << Chunk(<<>>), Chunk(<<50, 50>>), CorruptChunk >> >>],
      empty |-> [readable |-> TRUE, row_groups |-> <<>>],
      missing |-> [readable |-> FALSE, row_groups |-> <<>>] ]

Paths == DOMAIN FileSystem

\* Every list of at most n paths.
RECURSIVE PathLists(_)
PathLists(n) ==
    IF n = 0 THEN {<<>>}
    ELSE LET shorter == PathLists(n - 1)
         IN  shorter \cup {Append(s, p) : s \in {t \in shorter : Len(t) = n - 1}, p \in Paths}

\* struct Args: the positional paths and the two options.
Args == [paths : PathLists(MaxPaths),
         row_group : 0..MaxInitIndex,
         column : 0..MaxInitIndex]

\* crossterm events as handle_events tells them apart.
KeyCodes == {"q", "Esc", "Up", "Down", "Left", "Right", "Tab", "x"}

KeyKinds == {"Press", "Release"}

NoEvent == [type |-> "None", kind |-> "None", code |-> "None"]

Events ==
    [type : {"Key"}, kind : KeyKinds, code : KeyCodes]
        \cup {[type |-> "Resize", kind |-> "None", code |-> "None"]}

\* ------------------------------------------------------------------ state

VARIABLES
    pc,                      \* where the process is: main, draw, event, or ended
    args,                    \* the parsed command line
    should_exit,             \* App.should_exit
    files,                   \* App.files: sequence of ParqFile
    max_col_display_length,  \* App.max_col_display_length
    focused_file,            \* App.focused_file
    palettes,                \* App.palettes
    terminal,                \* the terminal UI: off, init (ratatui::init), restored
    panic_msg,               \* the message of the panic that ended the process, or ""
    last_event,              \* the event the last handle_events call read
    refreshed,               \* indices of the files the last step called reload_pages on
    recalculated             \* whether the last step called recalculate

vars == <<pc, args, should_exit, files, max_col_display_length, focused_file,
          palettes, terminal, panic_msg, last_event, refreshed, recalculated>>

\* ------------------------------------------------------------- PageSource

Ok(v) == [ok |-> TRUE, val |-> v]

\* A failed .expect(..): the panic and its message.
Panic(msg) == [ok |-> FALSE, val |-> msg]

\* ParqFile::get_pages: the pages of (row_group_num, col_num), or the panic of
\* the first .expect that fails.
get_pages(path, row_group_num, col_num) ==
    LET rgs == FileSystem[path].row_groups IN
    IF row_group_num >= Len(rgs) THEN Panic("couldn't read row group")
    ELSE LET cols == rgs[row_group_num + 1] IN
         IF col_num >= Len(cols) THEN Panic("couldn't get column page reader")
         ELSE IF ~cols[col_num + 1].readable THEN Panic("couldn't read pages")
         ELSE Ok(cols[col_num + 1].pages)

\* reload_pages that keeps the pages it had.
reload_pages_stale(pf) == Ok(pf)

\* ParqFile::reload_pages: pf with its pages replaced by get_pages' answer for
\* its current indices, or the panic.
reload_pages(pf) ==
    LET r == get_pages(pf.path, pf.current_row_group, pf.current_col) IN
    IF r.ok THEN Ok([pf EXCEPT !.pages = r.val]) ELSE r

\* ParqFile::new: open and parse the file, read the pages of (0, 0).
ParqFile_new(path) ==
    IF ~FileSystem[path].readable THEN Panic("could not open")
    ELSE LET r == get_pages(path, 0, 0) IN
         IF r.ok THEN Ok([path |-> path, pages |-> r.val,
                          current_row_group |-> 0, current_col |-> 0])
         ELSE r

\* ------------------------------------------------------------- arithmetic

RECURSIVE SumSeq(_)
\* .sum::<usize>() of a sequence of lengths.
SumSeq(s) == IF s = <<>> THEN 0 ELSE (s[1] + SumSeq(Tail(s))) % UsizeModulus

\* The largest element of a non-empty set of numbers.
MaxOf(S) == CHOOSE x \in S : \A y \in S : y <= x

\* usize as u32.
AsU32(n) == n % U32Modulus

\* The outcomes of `x += 1` on a usize: the new value, or the overflow panic of
\* a build with overflow checks.
AddOne(x) ==
    IF x + 1 < UsizeModulus THEN {Ok(x + 1)}
    ELSE {Panic("attempt to add with overflow"), Ok(0)}

\* The outcomes of `x -= 1` on a usize: the new value, or at 0 the overflow
\* panic of a build with overflow checks and the wrapped value of one without.
SubOne(x) ==
    IF x > 0 THEN {Ok(x - 1)}
    ELSE {Panic("attempt to subtract with overflow"), Ok(UsizeModulus - 1)}

\* recalculate with 0 for no file in place of the panic.
recalculate_or_zero(fs) ==
    IF Len(fs) = 0 THEN Ok(0)
    ELSE Ok(AsU32(MaxOf({SumSeq(fs[i].pages) : i \in 1..Len(fs)})))

\* recalculate with the sum over the files in place of the maximum.
recalculate_sum(fs) ==
    IF Len(fs) = 0 THEN Panic("cannot calculate display height")
    ELSE Ok(AsU32(SumSeq([i \in 1..Len(fs) |-> SumSeq(fs[i].pages)])))

\* App::recalculate: the new max_col_display_length, or the panic of .expect
\* when there is no file.
recalculate(fs) ==
    IF Len(fs) = 0 THEN Panic("cannot calculate display height")
    ELSE Ok(AsU32(MaxOf({SumSeq(fs[i].pages) : i \in 1..Len(fs)})))

\* ---------------------------------------------------------------- startup

\* The position labels of draw and the palettes of App::new.
labels == <<"A", "B", "C", "D", "E">>

Palettes == <<"ORANGE", "PINK", "PURPLE", "VIOLET", "SKY">>

\* The values of the results that are no panic.
CollectSkipFailed(rs) ==
    Ok([i \in 1..Cardinality({j \in 1..Len(rs) : rs[j].ok}) |->
          rs[CHOOSE j \in 1..Len(rs) :
                /\ rs[j].ok
                /\ Cardinality({k \in 1..j : rs[k].ok}) = i].val])

\* The first panic among a sequence of results, or Ok of their values.
Collect(rs) ==
    LET failed == {i \in 1..Len(rs) : ~rs[i].ok} IN
    IF failed # {}
    THEN rs[CHOOSE i \in failed : \A j \in failed : i <= j]
    ELSE Ok([i \in 1..Len(rs) |-> rs[i].val])

\* App::new keeping the files that open and load, dropping the others.
OpenAllSkipFailed(a) ==
    LET opened == CollectSkipFailed(
                      [i \in 1..Len(a.paths) |-> ParqFile_new(a.paths[i])]).val
    IN  CollectSkipFailed([i \in 1..Len(opened) |->
                            reload_pages([opened[i] EXCEPT
                                            !.current_row_group = a.row_group,
                                            !.current_col = a.column])])

\* App::new without the move to the initial indices.
OpenAllAtZero(a) ==
    Collect([i \in 1..Len(a.paths) |-> ParqFile_new(a.paths[i])])

\* App::new up to the recalculate call: every path opened with ParqFile::new,
\* then every file moved to (row_group, column) and reloaded.
OpenAll(a) ==
    LET opened == Collect([i \in 1..Len(a.paths) |-> ParqFile_new(a.paths[i])]) IN
    IF ~opened.ok THEN opened
    ELSE Collect([i \in 1..Len(a.paths) |->
                    reload_pages([opened.val[i] EXCEPT
                                    !.current_row_group = a.row_group,
                                    !.current_col = a.column])])

\* The process ends in a panic.
PanicWith(msg) ==
    /\ pc' = "panicked"
    /\ panic_msg' = msg

Init ==
    /\ pc = "main"
    /\ args \in Args
    /\ should_exit = FALSE
    /\ files = <<>>
    /\ max_col_display_length = 0
    /\ focused_file = 0
    /\ palettes = Palettes
    /\ terminal = "off"
    /\ panic_msg = ""
    /\ last_event = NoEvent
    /\ refreshed = {}
    /\ recalculated = FALSE

\* main: App::new(args), then ratatui::init() and the entry of App::run.
AppNew ==
    /\ pc = "main"
    /\ LET opened == OpenAll(args)
           scale == IF opened.ok THEN recalculate(opened.val) ELSE opened
       IN  IF scale.ok
           THEN /\ files' = opened.val
                /\ max_col_display_length' = scale.val
                /\ refreshed' = {i - 1 : i \in 1..Len(opened.val)}
                /\ recalculated' = TRUE
                /\ terminal' = "init"
                /\ pc' = "draw"
                /\ UNCHANGED panic_msg
           ELSE /\ PanicWith(scale.val)
                /\ UNCHANGED <<files, max_col_display_length, refreshed,
                               recalculated, terminal>>
    /\ UNCHANGED <<args, should_exit, focused_file, palettes, last_event>>

\* ------------------------------------------------------------------- loop

\* App::draw inside terminal.draw: reads the state, indexes labels and palettes
\* by file position.
Draw ==
    /\ pc = "draw"
    /\ IF \A i \in 1..Len(files) : i <= Len(labels) /\ i <= Len(palettes)
       THEN pc' = "event" /\ UNCHANGED panic_msg
       ELSE PanicWith("index out of bounds")
    /\ UNCHANGED <<args, should_exit, files, max_col_display_length, focused_file,
                   palettes, terminal, last_event, refreshed, recalculated>>

\* Constraint::Ratio(num, den).
Ratio(num, den) == [num |-> num, den |-> den]

\* App::draw_column: the vertical constraints of a file's panel, one
\* Ratio(page.buffer().len() as u32, max_col_display_length) per page.
constraints(parqfile) ==
    [k \in 1..Len(parqfile.pages) |->
        Ratio(AsU32(parqfile.pages[k]), max_col_display_length)]

\* terminal.draw(..)? or event::read()? returns Err: run returns it, main
\* restores the terminal.
IoError ==
    /\ pc \in {"draw", "event"}
    /\ pc' = "io_error"
    /\ terminal' = "restored"
    /\ UNCHANGED <<args, should_exit, files, max_col_display_length, focused_file,
                   palettes, panic_msg, last_event, refreshed, recalculated>>

Press(code) == [type |-> "Key", kind |-> "Press", code |-> code]

\* The test of a branch without the kind: any key event of that code.
MatchesAnyKind(ev, code) == ev.type = "Key" /\ ev.code = code

\* The test of a branch of handle_events on the key event read:
\* key.kind == KeyEventKind::Press && key.code == code.
Matches(ev, code) == ev.type = "Key" /\ ev.kind = "Press" /\ ev.code = code

BoundCodes == {"q", "Esc", "Up", "Down", "Left", "Right", "Tab"}

\* The file after the focused one.
FollowingIndex == ((focused_file + 1) % Len(files)) + 1

\* The index in files (1-based) of `&mut self.files[self.focused_file]`.
FocusedIndex == focused_file + 1

\* A loop that reads the next event without drawing.
ReturnSkipsDraw ==
    IF should_exit'
    THEN pc' = "exited" /\ terminal' = "restored"
    ELSE pc' = "event" /\ UNCHANGED terminal

\* The end of handle_events and the loop test of run.
Return ==
    IF should_exit'
    THEN pc' = "exited" /\ terminal' = "restored"
    ELSE pc' = "draw" /\ UNCHANGED terminal

\* An event that matches no branch of handle_events: not a key event, a key
\* event that is no Press, or a Press of an unbound key.
IgnoredEvent ==
    /\ pc = "event"
    /\ \E ev \in Events :
          /\ \A code \in BoundCodes : ~Matches(ev, code)
          /\ last_event' = ev
    /\ refreshed' = {}
    /\ recalculated' = FALSE
    /\ UNCHANGED <<args, should_exit, files, max_col_display_length, focused_file,
                   palettes, panic_msg>>
    /\ Return

\* Press of 'q' or of Esc.
PressQuit ==
    /\ pc = "event"
    /\ \E ev \in Events :
          /\ Matches(ev, "q") \/ Matches(ev, "Esc")
          /\ last_event' = ev
    /\ should_exit' = TRUE
    /\ refreshed' = {}
    /\ recalculated' = FALSE
    /\ UNCHANGED <<args, files, max_col_display_length, focused_file, palettes,
                   panic_msg>>
    /\ Return

\* A branch of handle_events that changes `field` of the focused file to one of
\* `outcomes`, reloads its pages and, with `recalcs`, recalculates.
Navigate(code, field, outcomes, recalcs) ==
    /\ pc = "event"
    /\ \E ev \in Events : Matches(ev, code) /\ last_event' = ev
    /\ UNCHANGED <<args, should_exit, focused_file, palettes>>
    /\ \E o \in outcomes :
          IF ~o.ok
          THEN /\ PanicWith(o.val)
               /\ refreshed' = {}
               /\ recalculated' = FALSE
               /\ UNCHANGED <<files, max_col_display_length, terminal>>
          ELSE LET moved == [files[FocusedIndex] EXCEPT ![field] = o.val]
                   r == reload_pages(moved)
               IN  IF ~r.ok
                   THEN /\ PanicWith(r.val)
                        /\ files' = [files EXCEPT ![FocusedIndex] = moved]
                        /\ refreshed' = {FocusedIndex - 1}
                        /\ recalculated' = FALSE
                        /\ UNCHANGED <<max_col_display_length, terminal>>
                   ELSE /\ files' = [files EXCEPT ![FocusedIndex] = r.val]
                        /\ refreshed' = {FocusedIndex - 1}
                        /\ recalculated' = recalcs
                        /\ max_col_display_length' =
                              IF recalcs THEN recalculate(files').val
                              ELSE max_col_display_length
                        /\ UNCHANGED panic_msg
                        /\ Return

PressUp ==
    Navigate("Up", "current_row_group",
             AddOne(files[FocusedIndex].current_row_group), TRUE)

PressDown ==
    Navigate("Down", "current_row_group",
             SubOne(files[FocusedIndex].current_row_group), TRUE)

\* A Left branch without the recalculate, like the Right branch.
PressLeftNoRecalculate ==
    Navigate("Left", "current_col", SubOne(files[FocusedIndex].current_col), FALSE)

PressLeft ==
    Navigate("Left", "current_col", SubOne(files[FocusedIndex].current_col), TRUE)

PressRight ==
    Navigate("Right", "current_col", AddOne(files[FocusedIndex].current_col), FALSE)

\* The focus after Tab without the wrap.
NextFocusNoWrap(focus, len) == focus + 1

\* The focus after Tab, cycling backwards.
NextFocusBack(focus, len) == (focus + len - 1) % len

\* The focus after Tab.
NextFocus(focus, len) == (focus + 1) % len

\* A Tab branch that also recalculates.
PressTabRecalculates ==
    /\ pc = "event"
    /\ \E ev \in Events : Matches(ev, "Tab") /\ last_event' = ev
    /\ focused_file' = NextFocus(focused_file, Len(files))
    /\ refreshed' = {}
    /\ recalculated' = TRUE
    /\ max_col_display_length' = recalculate(files).val
    /\ UNCHANGED <<args, should_exit, files, palettes, panic_msg>>
    /\ Return

PressTab ==
    /\ pc = "event"
    /\ \E ev \in Events : Matches(ev, "Tab") /\ last_event' = ev
    /\ focused_file' = NextFocus(focused_file, Len(files))
    /\ refreshed' = {}
    /\ recalculated' = FALSE
    /\ UNCHANGED <<args, should_exit, files, max_col_display_length, palettes,
                   panic_msg>>
    /\ Return

Next ==
    \/ AppNew
    \/ Draw
    \/ IoError
    \/ IgnoredEvent
    \/ PressQuit
    \/ PressUp
    \/ PressDown
    \/ PressLeft
    \/ PressRight
    \/ PressTab

Spec == Init /\ [][Next]_vars

\* The command lines that name file b one to MaxWidePaths times, at row
\* group 0 and column 0.
WideArgs ==
    {[paths |-> [i \in 1..n |-> "b"], row_group |-> 0, column |-> 0] :
        n \in 1..MaxWidePaths}

InitWide ==
    /\ pc = "main"
    /\ args \in WideArgs
    /\ should_exit = FALSE
    /\ files = <<>>
    /\ max_col_display_length = 0
    /\ focused_file = 0
    /\ palettes = Palettes
    /\ terminal = "off"
    /\ panic_msg = ""
    /\ last_event = NoEvent
    /\ refreshed = {}
    /\ recalculated = FALSE

\* The program started on the command lines of WideArgs.
SpecWide == InitWide /\ [][Next]_vars

\* ----------------------------------------------------------------- claims

\* App::new has returned and run has been entered.
Started == terminal # "off"

\* The loop is at a draw or waits for an event.
InLoop == pc \in {"draw", "event"}

RECURSIVE Total(_)
\* The sum of a document's page byte lengths.
Total(lens) == IF lens = <<>> THEN 0 ELSE lens[1] + Total(Tail(lens))

\* The maximum over all documents of the sum of their page byte lengths.
MaxTotal == MaxOf({Total(files[i].pages) : i \in 1..Len(files)})

NumRowGroups(path) == Len(FileSystem[path].row_groups)

NumColumns(path, rg) == Len(FileSystem[path].row_groups[rg + 1])

\* A step of one of the four navigation branches.
NavigationStep == PressUp \/ PressDown \/ PressLeft \/ PressRight

NavigationPresses == {Press("Up"), Press("Down"), Press("Left"), Press("Right")}

\* C1: at every draw, global_scale equals the maximum over all documents of
\* the sum of the document's page byte lengths, and a step that refreshed a
\* document's pages also recomputed the scale.
C1_ScaleIsMaxTotalAtDraw ==
    pc = "draw" =>
        /\ max_col_display_length = MaxTotal
        /\ (refreshed # {} => recalculated)

\* C2: in every state every document's row_group is below the file's row
\* group count and its column below the row group's column count.
C2_IndicesInBounds ==
    \A i \in 1..Len(files) :
        /\ files[i].current_row_group < NumRowGroups(files[i].path)
        /\ files[i].current_col <
               NumColumns(files[i].path, files[i].current_row_group)

\* The focused document is at the edge that `code` moves away from.
AtEdge(code) ==
    LET pf == files[FocusedIndex] IN
    CASE code = "Down" -> pf.current_row_group = 0
      [] code = "Left" -> pf.current_col = 0
      [] code = "Up" -> pf.current_row_group = NumRowGroups(pf.path) - 1
      [] code = "Right" ->
            pf.current_col = NumColumns(pf.path, pf.current_row_group) - 1

\* A navigation key handled with the focused document at the edge the key
\* moves away from.
EdgeStep ==
    \/ (PressDown /\ AtEdge("Down"))
    \/ (PressLeft /\ AtEdge("Left"))
    \/ (PressUp /\ AtEdge("Up"))
    \/ (PressRight /\ AtEdge("Right"))

\* C3: a navigation key pressed at the edge it moves away from changes no
\* document, raises no panic, and the loop goes on to the next draw.
C3_OutOfBoundsKeyIsNoOp ==
    [][EdgeStep => (files' = files /\ panic_msg' = "" /\ pc' = "draw")]_vars

\* The step called reload_pages on the focused document and get_pages failed.
RefreshFailed ==
    /\ NavigationStep
    /\ refreshed' = {focused_file}
    /\ panic_msg' \in {"couldn't read row group", "couldn't get column page reader",
                       "couldn't read pages"}

\* C4: when the refresh of a navigation key fails in get_pages (here for a
\* move inside the file's bounds), the focused document keeps the indices and
\* pages it had before the key and the loop goes on to the next draw.
C4_FailedRefreshReverts ==
    [][(RefreshFailed /\ ~EdgeStep) => (files' = files /\ pc' = "draw")]_vars

\* C5: after startup and after each handled event, every document's pages
\* are get_pages' answer for the document's current row group and column.
C5_PagesMatchSelection ==
    (InLoop \/ pc \in {"exited", "io_error"}) =>
        \A i \in 1..Len(files) :
            get_pages(files[i].path, files[i].current_row_group,
                      files[i].current_col) = Ok(files[i].pages)

\* C5 witness: two documents at a draw, the focused one moved by Right away
\* from the initial column and showing other pages than the first document.
C5_Witness ==
    /\ pc = "draw"
    /\ Len(files) = 2
    /\ focused_file = 1
    /\ last_event = Press("Right")
    /\ files[2].current_col = args.column + 1
    /\ files[2].pages # files[1].pages

\* C6: in the loop, global_scale is not zero while any document has a page.
C6_ScaleNonZeroWithPages ==
    (InLoop /\ \E i \in 1..Len(files) : files[i].pages # <<>>)
        => max_col_display_length # 0

\* C7: a navigation key changes no document other than the focused one and
\* reloads the pages of no other.
C7_NavigationTouchesFocusedOnly ==
    [][NavigationStep =>
          /\ \A i \in 1..Len(files) :
                i # focused_file + 1 => files'[i] = files[i]
          /\ refreshed' \subseteq {focused_file}
          /\ Len(files') = Len(files)]_vars

\* C7 witness: three documents, the middle one focused and just moved by a
\* navigation key to a selection the other two are not at.
C7_Witness ==
    /\ pc = "draw"
    /\ Len(files) = 3
    /\ focused_file = 1
    /\ last_event \in NavigationPresses
    /\ refreshed = {1}
    /\ files[2].current_row_group # files[1].current_row_group
    /\ files[1].current_row_group = files[3].current_row_group

\* C8: once the session exists, focused_file is an index of files.
C8_FocusedIsValidIndex ==
    Started => (0 <= focused_file /\ focused_file < Len(files))

\* C8 witness: three documents, Tab pressed up to the last one, which a
\* navigation key then moved.
C8_Witness ==
    /\ pc = "draw"
    /\ Len(files) = 3
    /\ focused_file = 2
    /\ last_event \in NavigationPresses
    /\ files[3].current_col # files[1].current_col

RECURSIVE TabTimes(_, _, _)
\* The focus after k Tab presses from `focus` among `len` documents.
TabTimes(focus, len, k) ==
    IF k = 0 THEN focus ELSE TabTimes(NextFocus(focus, len), len, k - 1)

\* C9: a Tab press sets focused_file to (focused_file + 1) mod len(files),
\* from the last index to 0, and from any focus the session reaches
\* len(files) Tab presses lead back to it.
C9_TabCycles ==
    /\ [][PressTab =>
             /\ focused_file' = (focused_file + 1) % Len(files)
             /\ (focused_file = Len(files) - 1 => focused_file' = 0)]_vars
    /\ [](Started => TabTimes(focused_file, Len(files), Len(files)) = focused_file)

\* C9 witness: three documents, Tab just pressed with the focus on the last
\* one, the focus now on the first.
C9_Witness ==
    /\ pc = "draw"
    /\ Len(files) = 3
    /\ focused_file = 0
    /\ last_event = Press("Tab")

\* C10: a handled event that is no Press of 'q' or Esc leads to the next
\* draw, and nothing happens after the loop has exited.
C10_OnlyQuitEndsLoop ==
    /\ [][(IgnoredEvent \/ NavigationStep \/ PressTab) => pc' = "draw"]_vars
    /\ [][pc # "exited"]_vars

\* A step of handle_events, whatever the event read.
HandleEventsStep == IgnoredEvent \/ PressQuit \/ NavigationStep \/ PressTab

\* A key event of kind Press for one of the bound keys.
IsBoundPress(ev) == ev.type = "Key" /\ ev.kind = "Press" /\ ev.code \in BoundCodes

\* The step leaves every field of the session as it was.
SessionUnchanged ==
    /\ files' = files
    /\ focused_file' = focused_file
    /\ max_col_display_length' = max_col_display_length
    /\ should_exit' = should_exit
    /\ palettes' = palettes

\* C11: handling an event that is no Press of a bound key (a release of any
\* key, a Press of an unbound key, a resize) leaves the session unchanged and
\* leads to the next draw.
C11_OtherEventsChangeNothing ==
    [][(HandleEventsStep /\ ~IsBoundPress(last_event'))
          => (SessionUnchanged /\ pc' = "draw")]_vars

\* C11 witness: at a draw after the release of 'q' was read, with the second
\* document focused: the loop has not exited.
C11_Witness ==
    /\ pc = "draw"
    /\ last_event = [type |-> "Key", kind |-> "Release", code |-> "q"]
    /\ focused_file = 1
    /\ ~should_exit

\* The state App::new has just returned: before the first draw.
BeforeFirstDraw == pc = "draw" /\ last_event = NoEvent

\* C12: after a successful session creation and before the first draw, there
\* is one document per path, each at the initial row group and column with
\* get_pages' answer for them, global_scale is the maximum page-byte total,
\* focused_file is 0 and should_exit is false.
C12_SessionAfterCreation ==
    BeforeFirstDraw =>
        /\ Len(files) = Len(args.paths)
        /\ \A i \in 1..Len(files) :
              /\ files[i].path = args.paths[i]
              /\ files[i].current_row_group = args.row_group
              /\ files[i].current_col = args.column
              /\ get_pages(args.paths[i], args.row_group, args.column)
                    = Ok(files[i].pages)
        /\ max_col_display_length = MaxTotal
        /\ focused_file = 0
        /\ ~should_exit

\* C12 witness: a session of files a and b created at row group 0, column 1.
C12_Witness ==
    /\ BeforeFirstDraw
    /\ args.paths = <<"a", "b">>
    /\ args.row_group = 0
    /\ args.column = 1
    /\ Len(files) = 2

\* Creating a document for `path` at the initial indices fails: the file
\* cannot be opened, or one of its two page fetches in App::new fails.
CreationFails(path) ==
    \/ ~FileSystem[path].readable
    \/ ~get_pages(path, 0, 0).ok
    \/ ~get_pages(path, args.row_group, args.column).ok

\* C13: if a path cannot be opened or the initial page fetch of a document
\* fails, the process never initialises the terminal, never draws and never
\* holds a session: startup ends in a panic.
C13_StartupAbortsOnAnyFailure ==
    (\E i \in 1..Len(args.paths) : CreationFails(args.paths[i])) =>
        /\ pc \in {"main", "panicked"}
        /\ terminal = "off"
        /\ files = <<>>

\* C13 witness: startup has panicked for three paths of which the first two
\* are good and the last cannot be opened.
C13_Witness ==
    /\ pc = "panicked"
    /\ terminal = "off"
    /\ Len(args.paths) = 3
    /\ ~CreationFails(args.paths[1])
    /\ ~CreationFails(args.paths[2])
    /\ ~FileSystem[args.paths[3]].readable

\* C14: at every draw, the page byte lengths of every document's panel sum
\* to at most the global_scale in use, so that the rows' ratios sum to at
\* most the panel height.
C14_PanelFitsScale ==
    pc = "draw" =>
        \A i \in 1..Len(files) : Total(files[i].pages) <= max_col_display_length

\* The row of a page of `len` bytes takes the whole panel / a quarter of it.
FillsPanel(r) == r.num = r.den

QuarterOfPanel(r) == 4 * r.num = r.den

C16_TabChangesOnlyFocus ==
    [][PressTab =>
          /\ files' = files
          /\ max_col_display_length' = max_col_display_length
          /\ should_exit' = should_exit
          /\ palettes' = palettes
          /\ refreshed' = {}
          /\ ~recalculated'
          /\ (Len(files) = 1 => focused_file' = focused_file)]_vars

\* C16 witness: a single document whose global_scale is not the total of its
\* pages, at the draw after a Tab press.
C16_Witness ==
    /\ pc = "draw"
    /\ Len(files) = 1
    /\ last_event = Press("Tab")
    /\ focused_file = 0
    /\ max_col_display_length # MaxTotal

\* C17: every Up, Down or Left press that completes leaves global_scale equal
\* to the maximum over all documents of their page-byte totals, and a step
\* that ends in the loop with another global_scale is a Right press or one
\* that changed neither a document nor the scale: a stale scale comes from
\* Right only and lasts until the next Up, Down or Left.
C17_OnlyRightLeavesStaleScale ==
    /\ [][((PressUp \/ PressDown \/ PressLeft) /\ pc' = "draw")
             => max_col_display_length' = MaxTotal']_vars
    /\ [][(pc' \in {"draw", "event"} /\ max_col_display_length' # MaxTotal')
             => \/ PressRight
                \/ (files' = files
                      /\ max_col_display_length' = max_col_display_length)]_vars

\* C17 witness: two documents, the second focused and just moved by Left; the
\* scale is the total of the first, larger than the focused one's.
C17_Witness ==
    /\ pc = "draw"
    /\ Len(files) = 2
    /\ focused_file = 1
    /\ last_event = Press("Left")
    /\ Total(files[1].pages) > Total(files[2].pages)
    /\ max_col_display_length = Total(files[1].pages)

C19_EverySlotHasLabelAndPalette ==
    /\ panic_msg # "index out of bounds"
    /\ (pc = "event" => (Len(files) <= Len(labels) /\ Len(files) <= Len(palettes)))
    /\ palettes = Palettes

\* C20: App::new with no path panics in recalculate and nothing more happens;
\* once the session exists files is not empty, so files[focused_file] and
\* the modulus of Tab are defined.
C20_FilesNeverEmptyInLoop ==
    /\ (Started => (Len(files) > 0 /\ focused_file < Len(files)))
    /\ ((args.paths = <<>> /\ pc # "main") =>
            /\ pc = "panicked"
            /\ panic_msg = "cannot calculate display height"
            /\ terminal = "off")

\* C20 witness: the process started with no path has panicked in recalculate.
C20_Witness ==
    /\ args.paths = <<>>
    /\ pc = "panicked"
    /\ panic_msg = "cannot calculate display height"

====
